---- MODULE Spec2Model ----
(***************************************************************************)
(* Model of src/app.py, the Streamlit "Surgical Department Analytics"      *)
(* script: header normalisation, degree classification, safe sums, the     *)
(* category sort, the projected tables and the PDF report boundary.        *)
(*                                                                         *)
(* Text is modelled as a sequence of one-character strings, so that        *)
(* str.lower, substring containment, the regex \s+ and str.strip are       *)
(* computed, not assumed.  A DataFrame is a record                         *)
(*   [columns |-> sequence of column names,                                *)
(*    rows    |-> sequence of [index |-> label, cells |-> sequence]]       *)
(* with cells aligned to columns; a failed column lookup is a KeyError.    *)
(***************************************************************************)
EXTENDS Integers, Sequences, FiniteSets, TLC

VARIABLES
    uploaded_file,    \* st.file_uploader value: [present, df] (df as read_csv gives it)
    department,       \* st.selectbox value
    messages,         \* st.error / st.info / st.success boxes of the last run
    exception,        \* uncaught exception that ended the last run ("" if none)
    rendered,         \* dashboard sections rendered by the last run, in order
    options,          \* options of the department selectbox
    dept_df,          \* department slice with its "Degree Group" column
    detailed_tables,  \* dict degree -> roster table, in insertion order
    metrics,          \* metric cards of the last run
    charts,           \* figures of the last run
    staff_sorted_df,  \* category-sorted slice
    perf_table,
    op_source_table,
    op_value_table,
    fin_table,
    pdf_buffer,       \* data of st.download_button (<<>> when none is offered)
    download_offered, \* st.download_button rendered by the last run
    button_pressed,   \* what st.button("Generate PDF Report") returned in the last run
    header_in,        \* clean_columns harness: the headers as read
    header_out,       \* clean_columns harness: the headers after one and two passes
    degree_in,        \* classify_degree harness: the cell taken up (<<>>: none)
    degree_out        \* classify_degree harness: the Degree Group

pipeline_vars == <<uploaded_file, department, messages, exception, rendered, options,
                   dept_df, detailed_tables, metrics, charts, staff_sorted_df,
                   perf_table, op_source_table, op_value_table, fin_table,
                   pdf_buffer, download_offered, button_pressed>>
harness_vars == <<header_in, header_out, degree_in, degree_out>>
vars == <<pipeline_vars, harness_vars>>

(***************************************************************************)
(* Bounds of the model.                                                    *)
(***************************************************************************)
MaxRows == 2          \* rows of an uploaded roster drawn freely from RowPool
MaxStaff == 18        \* rows of a uniform roster (one staff record repeated)
MaxHeaderLen == 4     \* characters of a raw header in the clean_columns harness
MaxFrags == 2         \* text fragments of a degree cell in the classify harness

(***************************************************************************)
(* Text helpers.                                                           *)
(***************************************************************************)
\* a sequence given as a function over 1..n, evaluated once into a tuple
AsTuple(f) == SubSeq(f, 1, Len(f))

\* v[p]: the elements of v at the positions p lists
Permuted(v, p) == AsTuple([i \in DOMAIN p |-> v[p[i]]])

Whitespace == {" ", "\t", "\n"}

IsSpace(c) == c \in Whitespace

RECURSIVE SkipSpaces(_)
SkipSpaces(s) ==
    IF s # <<>> /\ IsSpace(Head(s)) THEN SkipSpaces(Tail(s)) ELSE s

\* Variant: the pattern r"\s" without the "+", each whitespace character -> one space
RECURSIVE ReplaceEachWs(_)
ReplaceEachWs(s) ==
    IF s = <<>> THEN <<>>
    ELSE IF IsSpace(Head(s)) THEN <<" ">> \o ReplaceEachWs(Tail(s))
    ELSE <<Head(s)>> \o ReplaceEachWs(Tail(s))

\* str.replace(r"\s+", " ", regex=True): every maximal run of whitespace -> one space
RECURSIVE ReplaceWsRuns(_)
ReplaceWsRuns(s) ==
    IF s = <<>> THEN <<>>
    ELSE IF IsSpace(Head(s)) THEN <<" ">> \o ReplaceWsRuns(SkipSpaces(Tail(s)))
    ELSE <<Head(s)>> \o ReplaceWsRuns(Tail(s))

RECURSIVE DropTrailingSpaces(_)
DropTrailingSpaces(s) ==
    IF s # <<>> /\ IsSpace(s[Len(s)])
    THEN DropTrailingSpaces(SubSeq(s, 1, Len(s) - 1))
    ELSE s

\* str.strip(): leading and trailing whitespace removed
Strip(s) == DropTrailingSpaces(SkipSpaces(s))

\* Variant: the header left as the file writes it
verbatim_header(h) == h

normalize_header(h) == Strip(ReplaceWsRuns(h))

\* def clean_columns(df)
clean_columns(df) ==
    [df EXCEPT !.columns =
        AsTuple([i \in DOMAIN df.columns |-> normalize_header(df.columns[i])])]

Upper == <<"A","C","D","E","I","L","N","O","P","R","S","T","U">>
Lower == <<"a","c","d","e","i","l","n","o","p","r","s","t","u">>

\* str.lower() on one character (letters of the model's alphabet)
LowerChar(c) ==
    IF \E i \in DOMAIN Upper : Upper[i] = c
    THEN Lower[CHOOSE i \in DOMAIN Upper : Upper[i] = c]
    ELSE c

ToLower(s) == AsTuple([i \in DOMAIN s |-> LowerChar(s[i])])

\* Python's "needle in haystack"
Contains(haystack, needle) ==
    \E i \in 0..(Len(haystack) - Len(needle)) :
        SubSeq(haystack, i + 1, i + Len(needle)) = needle

\* A cell is [kind |-> "str", s |-> text] or the float nan pandas reads for an
\* empty field, [kind |-> "nan", s |-> <<>>]; str(x) of the latter is "nan".
NaN == [kind |-> "nan", s |-> <<>>]
Str(t) == [kind |-> "str", s |-> t]
PyStr(x) == IF x.kind = "nan" THEN <<"n","a","n">> ELSE x.s

\* Variant: the if-chain with "special" tested before "consult"
classify_special_first(x) ==
    IF Contains(x, <<"s","p","e","c","i","a","l">>) THEN "Specialist"
    ELSE IF Contains(x, <<"c","o","n","s","u","l","t">>) THEN "Consultant"
    ELSE IF Contains(x, <<"r","e","s","i","d","e","n","t">>) THEN "Resident"
    ELSE "Other"

\* the if-chain of classify_degree on the lowered text
classify_lowered(x) ==
    IF Contains(x, <<"c","o","n","s","u","l","t">>) THEN "Consultant"
    ELSE IF Contains(x, <<"s","p","e","c","i","a","l">>) THEN "Specialist"
    ELSE IF Contains(x, <<"r","e","s","i","d","e","n","t">>) THEN "Resident"
    ELSE "Other"

\* def classify_degree(x): x = str(x).lower(), then the if-chain
classify_degree(x) == classify_lowered(ToLower(PyStr(x)))

(***************************************************************************)
(* Column names of the upload (canonical, i.e. already normalised).        *)
(***************************************************************************)
department_col == <<"d","e","p","a","r","t","m","e","n","t">>
staff_name == <<"s","t","a","f","f"," ","n","a","m","e">>
degree == <<"d","e","g","r","e","e">>
Contract_type == <<"C","o","n","t","r","a","c","t"," ","t","y","p","e">>
total_hours == <<"t","o","t","a","l"," ","h","o","u","r","s">>
opened_clinic == <<"o","p","e","n","e","d"," ","c","l","i","n","i","c">>
Total_visits == <<"T","o","t","a","l"," ","v","i","s","i","t","s">>
Operation_total_number ==
    <<"O","p","e","r","a","t","i","o","n"," ","t","o","t","a","l"," ","n","u","m","b","e","r">>
opr_elective == <<"o","p","r","_","e","l","e","c","t","i","v","e">>
opr_emergency == <<"o","p","r","_","e","m","e","r","g","e","n","c","y">>
opr_high == <<"o","p","r","_","h","i","g","h">>
opr_moderate == <<"o","p","r","_","m","o","d","e","r","a","t","e">>
opr_low == <<"o","p","r","_","l","o","w">>
total_slary == <<"t","o","t","a","l"," ","s","l","a","r","y">>
total_income == <<"t","o","t","a","l"," ","i","n","c","o","m","e">>
Net == <<"N","e","t">>
Degree_Group == <<"D","e","g","r","e","e"," ","G","r","o","u","p">>

\* The optional columns, in the order the uploads of the model list them.
OptionalColumns ==
    <<staff_name, degree, Contract_type, total_hours, opened_clinic, Total_visits,
      Operation_total_number, opr_elective, opr_emergency, opr_high, opr_moderate,
      opr_low, total_slary, total_income, Net>>

Range(s) == {s[i] : i \in DOMAIN s}

(***************************************************************************)
(* DataFrame operations.                                                   *)
(***************************************************************************)
EmptyDF == [columns |-> <<>>, rows |-> <<>>]

\* col in df.columns
HasCol(df, col) == \E i \in DOMAIN df.columns : df.columns[i] = col

ColIdx(df, col) == CHOOSE i \in DOMAIN df.columns : df.columns[i] = col

\* df[col] as the sequence of its values (defined when HasCol(df, col))
Col(df, col) ==
    LET k == ColIdx(df, col) IN AsTuple([i \in DOMAIN df.rows |-> df.rows[i].cells[k]])

\* df[[c1, c2, ...]] raises KeyError when a listed column is missing
MissingAny(df, cols) == \E j \in DOMAIN cols : ~HasCol(df, cols[j])

\* df[[c1, c2, ...]].copy() followed by .columns = labels
Project(df, cols, labels) ==
    [columns |-> labels,
     rows |-> LET ks == AsTuple([j \in DOMAIN cols |-> ColIdx(df, cols[j])])
              IN AsTuple([i \in DOMAIN df.rows |->
                   [index |-> df.rows[i].index,
                    cells |-> AsTuple([j \in DOMAIN ks |-> df.rows[i].cells[ks[j]]])]])]

\* df[mask]: the rows whose value in column col is v, in order, index labels kept
RowsWhere(df, col, v) ==
    LET k == ColIdx(df, col) IN
    [df EXCEPT !.rows = SelectSeq(df.rows, LAMBDA r : r.cells[k] = v)]

\* df[name] = values (a new last column; name is not yet a column)
WithColumn(df, name, values) ==
    [columns |-> Append(df.columns, name),
     rows |-> AsTuple([i \in DOMAIN df.rows |->
                 [df.rows[i] EXCEPT !.cells = Append(df.rows[i].cells, values[i])]])]

\* df.iloc[perm]
Take(df, perm) == [df EXCEPT !.rows = Permuted(df.rows, perm)]

RECURSIVE SumSeq(_)
SumSeq(s) == IF s = <<>> THEN 0 ELSE Head(s) + SumSeq(Tail(s))

\* (series == v).sum()
CountEq(s, v) == Cardinality({i \in DOMAIN s : s[i] = v})

\* Variant: df[col].count() in place of df[col].sum()
safe_count(df, col) == IF HasCol(df, col) THEN Len(Col(df, col)) ELSE 0

\* def safe_sum(df, col)
safe_sum(df, col) == IF HasCol(df, col) THEN SumSeq(Col(df, col)) ELSE 0

(***************************************************************************)
(* numpy's argsort(kind="quicksort"), which DataFrame.sort_values uses by  *)
(* default: an introsort on the index array.  Segments of more than        *)
(* SMALL_QUICKSORT + 1 elements are partitioned around a median of three;  *)
(* shorter ones are insertion-sorted.  (The heapsort fallback needs a      *)
(* recursion depth that arrays of the model's sizes cannot reach.)         *)
(***************************************************************************)
SMALL_QUICKSORT == 16

Swap(ts, i, j) == [ts EXCEPT ![i] = ts[j], ![j] = ts[i]]

\* insertion sort: where the element at pi goes, i.e. just after the last position
\* before pi whose key is not greater (pl - 1 when every key before it is greater)
InsertionPoint(v, ts, pl, pi) ==
    IF \E k \in pl..(pi - 1) : ~(v[ts[pi]] < v[ts[k]])
    THEN CHOOSE k \in pl..(pi - 1) :
           /\ ~(v[ts[pi]] < v[ts[k]])
           /\ \A m \in (k + 1)..(pi - 1) : v[ts[pi]] < v[ts[m]]
    ELSE pl - 1

\* the element at pi moved to just after position stop
InsertAfter(ts, stop, pi) ==
    SubSeq(ts, 1, stop) \o <<ts[pi]>> \o SubSeq(ts, stop + 1, pi - 1)
    \o SubSeq(ts, pi + 1, Len(ts))

\* insertion sort of ts[pl..pr] by key v[ts[.]], from position pi on
RECURSIVE InsertionSort(_, _, _, _, _)
InsertionSort(v, ts, pl, pr, pi) ==
    IF pi > pr THEN ts
    ELSE InsertionSort(v, InsertAfter(ts, InsertionPoint(v, ts, pl, pi), pi), pl, pr, pi + 1)

\* do ++pi while key < pivot
ScanUp(v, ts, pi, vp) ==
    CHOOSE i \in (pi + 1)..Len(ts) :
        /\ ~(v[ts[i]] < vp)
        /\ \A m \in (pi + 1)..(i - 1) : v[ts[m]] < vp

\* do --pj while pivot < key
ScanDown(v, ts, pj, vp) ==
    CHOOSE j \in 1..(pj - 1) :
        /\ ~(vp < v[ts[j]])
        /\ \A m \in (j + 1)..(pj - 1) : vp < v[ts[m]]

\* the partition loop: scan, stop when the scans meet, else swap and go on
RECURSIVE PartitionLoop(_, _, _, _, _)
PartitionStep(v, ts, pi, pj, vp) ==
    IF pi >= pj THEN [ts |-> ts, pi |-> pi]
    ELSE PartitionLoop(v, Swap(ts, pi, pj), pi, pj, vp)

PartitionLoop(v, ts, pi, pj, vp) ==
    PartitionStep(v, ts, ScanUp(v, ts, pi, vp), ScanDown(v, ts, pj, vp), vp)

SwapIfLess(v, ts, a, b) == IF v[ts[a]] < v[ts[b]] THEN Swap(ts, a, b) ELSE ts

Mid(pl, pr) == pl + ((pr - pl) \div 2)

\* median of three into pm
MedianOfThree(v, ts, pl, pr) ==
    SwapIfLess(v, SwapIfLess(v, SwapIfLess(v, ts, Mid(pl, pr), pl), pr, Mid(pl, pr)),
               Mid(pl, pr), pl)

\* the pivot goes to pr - 1, the loop runs, the pivot goes to where the scans met
PivotBack(lp, pr) == [ts |-> Swap(lp.ts, lp.pi, pr - 1), pi |-> lp.pi]

PartitionAround(v, ts, pl, pr) ==
    PivotBack(PartitionLoop(v, Swap(ts, Mid(pl, pr), pr - 1), pl, pr - 1,
                            v[ts[Mid(pl, pr)]]), pr)

Partition(v, ts, pl, pr) == PartitionAround(v, MedianOfThree(v, ts, pl, pr), pl, pr)

RECURSIVE Quicksort(_, _, _, _)
SortParts(v, p, pl, pr) == Quicksort(v, Quicksort(v, p.ts, pl, p.pi - 1), p.pi + 1, pr)

Quicksort(v, ts, pl, pr) ==
    IF pr - pl > SMALL_QUICKSORT
    THEN SortParts(v, Partition(v, ts, pl, pr), pl, pr)
    ELSE InsertionSort(v, ts, pl, pr, pl + 1)

\* np.argsort(v, kind="quicksort"): positions of v in sorted order
argsort(v) == Quicksort(v, AsTuple([i \in DOMAIN v |-> i]), 1, Len(v))

\* the values of a numeric column in ascending order
SortedValues(v) == Permuted(v, argsort(v))

(***************************************************************************)
(* Number formatting of the metric cards.                                  *)
(***************************************************************************)
\* a / b rounded to the nearest integer, ties to even (a >= 0, b > 0)
RoundHalfEven(a, b) ==
    LET q == a \div b
        r == a % b
    IN IF 2 * r < b THEN q
       ELSE IF 2 * r > b THEN q + 1
       ELSE q + (q % 2)

\* (num / den * 100) if den else 0, as formatted by :.1f, in tenths of a percent
PctTenths(num, den) == IF den # 0 THEN RoundHalfEven(num * 1000, den) ELSE 0

Metric(label, n) == [label |-> label, text |-> "", n |-> n, pct |-> -1]
MetricPct(label, n, pct) == [label |-> label, text |-> "", n |-> n, pct |-> pct]
MetricNA(label) == [label |-> label, text |-> "N/A", n |-> 0, pct |-> -1]

(***************************************************************************)
(* generate_pdf: the flowables of the report, in order.                    *)
(***************************************************************************)
Flowable(kind, text, counts, data) ==
    [kind |-> kind, text |-> text, counts |-> counts, data |-> data]

\* [df.columns.tolist()] + df.values.tolist()
TableData(df) == <<df.columns>> \o AsTuple([i \in DOMAIN df.rows |-> df.rows[i].cells])

TableFlowable(df) == Flowable("Table", "", <<>>, TableData(df))

\* one iteration of "for degree, table_df in detailed_tables.items()"
StaffBreakdownItem(item) ==
    LET table_df == item.table
        has == HasCol(table_df, "Contract Type")
        ct == Col(table_df, "Contract Type")
        contracted == IF has THEN CountEq(ct, "Contracted") ELSE 0
        general == IF has THEN CountEq(ct, "General") ELSE 0
    IN << Flowable("Heading3", item.degree, <<Len(table_df.rows), contracted, general>>, <<>>),
          TableFlowable(table_df),
          Flowable("Spacer", "", <<>>, <<>>) >>

RECURSIVE StaffBreakdown(_)
StaffBreakdown(tables) ==
    IF tables = <<>> THEN <<>>
    ELSE StaffBreakdownItem(Head(tables)) \o StaffBreakdown(Tail(tables))

\* the flowables generate_pdf appends, grouped by the section of the report
report_sections(dept, tables, perf, op_source, op_value, fin) ==
    << << Flowable("Title", dept, <<>>, <<>>),
          Flowable("Spacer", "", <<>>, <<>>) >>,
       <<Flowable("Heading2", "Staff Breakdown by Degree", <<>>, <<>>)>>
          \o StaffBreakdown(tables)
          \o <<Flowable("PageBreak", "", <<>>, <<>>)>>,
       << Flowable("Heading2", "Overall Performance", <<>>, <<>>),
          TableFlowable(perf),
          Flowable("PageBreak", "", <<>>, <<>>) >>,
       << Flowable("Heading2", "Operations Overview", <<>>, <<>>),
          Flowable("Heading3", "Operation Source", <<>>, <<>>),
          TableFlowable(op_source),
          Flowable("Spacer", "", <<>>, <<>>),
          Flowable("Heading3", "Operation Value", <<>>, <<>>),
          TableFlowable(op_value),
          Flowable("Spacer", "", <<>>, <<>>),
          Flowable("PageBreak", "", <<>>, <<>>) >>,
       << Flowable("Heading2", "Financial Performance", <<>>, <<>>),
          TableFlowable(fin) >> >>

RECURSIVE Flatten(_)
Flatten(ss) == IF ss = <<>> THEN <<>> ELSE Head(ss) \o Flatten(Tail(ss))

\* the sections of the report, as many as report_sections lists
ReportSections == DOMAIN report_sections("", <<>>, EmptyDF, EmptyDF, EmptyDF, EmptyDF)

\* doc.build(elements): fault = 0: the build succeeds and the buffer holds the whole
\* document; fault = k > 0: a flowable of section k makes reportlab raise, with only
\* the sections before it laid out.
build_document(sections, fault) ==
    IF fault \in DOMAIN sections
    THEN [raised |-> TRUE, buffer |-> Flatten(SubSeq(sections, 1, fault - 1))]
    ELSE [raised |-> FALSE, buffer |-> Flatten(sections)]

\* def generate_pdf(...)
generate_pdf(dept, tables, perf, op_source, op_value, fin, fault) ==
    build_document(report_sections(dept, tables, perf, op_source, op_value, fin), fault)

\* Variant: the download offered whatever the build left in the buffer
pdf_boundary_unguarded(result) ==
    [download_offered |-> TRUE, pdf_buffer |-> result.buffer,
     messages |-> IF result.raised
                  THEN <<[kind |-> "error", text |-> "PDF generation failed"]>>
                  ELSE <<>>]

\* try: pdf_buffer = generate_pdf(...); st.download_button(...)
\* except Exception as e: st.error(...)
pdf_boundary(result) ==
    IF result.raised
    THEN [download_offered |-> FALSE, pdf_buffer |-> <<>>,
          messages |-> <<[kind |-> "error", text |-> "PDF generation failed"]>>]
    ELSE [download_offered |-> TRUE, pdf_buffer |-> result.buffer, messages |-> <<>>]

(***************************************************************************)
(* The main script, one run from top to bottom.                            *)
(***************************************************************************)
NoDepartment == "None"   \* st.selectbox over no options returns None

\* Department names the model uses, in the order sorted() puts them.
DepartmentNames == <<"ENT", "Surgery">>

\* sorted(df["department"].dropna().unique())
department_options(df) ==
    LET depts == Col(df, department_col)
    IN SelectSeq(DepartmentNames, LAMBDA d : \E i \in DOMAIN depts : depts[i] = d)

\* the value of the selectbox: the user's choice while it is an option, else the first
selectbox(opts, sel) ==
    IF \E i \in DOMAIN opts : opts[i] = sel THEN sel
    ELSE IF opts = <<>> THEN NoDepartment
    ELSE opts[1]

\* df[df["department"] == department].copy() with its "Degree Group" column
ClassifyAll(cells) == AsTuple([i \in DOMAIN cells |-> classify_degree(cells[i])])

\* dept_df["degree"].apply(classify_degree) if "degree" in dept_df.columns else "Other"
degree_groups(slice) ==
    IF HasCol(slice, degree) THEN ClassifyAll(Col(slice, degree))
    ELSE AsTuple([i \in DOMAIN slice.rows |-> "Other"])

with_degree_group(slice) == WithColumn(slice, Degree_Group, degree_groups(slice))

department_slice(df, dept) == with_degree_group(RowsWhere(df, department_col, dept))

\* Manpower Overview cards
manpower_metrics(df) ==
    LET total_staff == Len(df.rows)
        ct == Col(df, Contract_type)
        cont_val == CountEq(ct, "Contracted")
        gen_val == CountEq(ct, "General")
    IN IF HasCol(df, Contract_type)
       THEN << Metric("Total Staff", total_staff),
               MetricPct("Contracted", cont_val, PctTenths(cont_val, total_staff)),
               MetricPct("General", gen_val, PctTenths(gen_val, total_staff)) >>
       ELSE << Metric("Total Staff", total_staff),
               MetricNA("Contracted"), MetricNA("General") >>

\* for degree in [...]: the degrees the staff breakdown loops over
breakdown_degrees == <<"Consultant", "Specialist", "Resident">>

deg_df(df, deg) == RowsWhere(df, Degree_Group, deg)

\* table_df of one loop iteration (needs "staff name")
roster_table(df, deg) ==
    IF HasCol(df, Contract_type)
    THEN Project(deg_df(df, deg), <<staff_name, Contract_type>>,
                 <<"Staff Name", "Contract Type">>)
    ELSE Project(deg_df(df, deg), <<staff_name>>, <<"Staff Name">>)

\* the cards of one loop iteration
degree_metrics(df, deg) ==
    LET d == deg_df(df, deg)
        ct == Col(d, Contract_type)
    IN IF HasCol(df, Contract_type)
       THEN << Metric(deg, Len(d.rows)),
               Metric("Contracted", CountEq(ct, "Contracted")),
               Metric("General", CountEq(ct, "General")) >>
       ELSE << Metric(deg, Len(d.rows)), MetricNA("Contracted"), MetricNA("General") >>

nonempty_degrees(df) ==
    SelectSeq(breakdown_degrees, LAMBDA deg : deg_df(df, deg).rows # <<>>)

\* detailed_tables after the loop (when no iteration raised)
build_detailed_tables(df) ==
    LET degs == nonempty_degrees(df)
    IN AsTuple([i \in DOMAIN degs |->
                  [degree |-> degs[i], table |-> roster_table(df, degs[i])]])

RECURSIVE breakdown_metrics(_, _)
breakdown_metrics(df, degs) ==
    IF degs = <<>> THEN <<>>
    ELSE degree_metrics(df, Head(degs)) \o breakdown_metrics(df, Tail(degs))

\* Performance Metrics and Financial Performance cards
performance_metrics(df) ==
    << Metric("Total Hours", safe_sum(df, total_hours)),
       Metric("Opened Clinics", safe_sum(df, opened_clinic)),
       Metric("Total Visits", safe_sum(df, Total_visits)),
       Metric("Total Operations", safe_sum(df, Operation_total_number)) >>

financial_metrics(df) ==
    LET total_income_v == safe_sum(df, total_income)
        total_net == safe_sum(df, Net)
    IN << Metric("Total Salary", safe_sum(df, total_slary)),
          Metric("Total Income", total_income_v),
          MetricPct("Net Income", total_net, PctTenths(total_net, total_income_v)) >>

Figure(title, labels, values, names, height) ==
    [title |-> title, labels |-> labels, values |-> values, names |-> names,
     height |-> height]

\* the two pie charts of the Operations Overview
operations_pies(df) ==
    << Figure("Operation Source", <<"Elective", "Emergency">>,
              <<safe_sum(df, opr_elective), safe_sum(df, opr_emergency)>>, {}, 350),
       Figure("Operation Value", <<"High", "Moderate", "Low">>,
              <<safe_sum(df, opr_high), safe_sum(df, opr_moderate), safe_sum(df, opr_low)>>,
              {}, 350) >>

\* degree_order and the codes pd.Categorical gives the Degree Group values
degree_order == <<"Consultant", "Specialist", "Resident", "Other">>

\* Variant: the groups compared as plain strings (no ordered categorical)
alphabetical_code(g) ==
    CHOOSE i \in 1..4 : <<"Consultant", "Other", "Resident", "Specialist">>[i] = g

category_code(g) == CHOOSE i \in DOMAIN degree_order : degree_order[i] = g

\* dept_df.sort_values(by="Degree Group") on the ordered categorical
category_codes(groups) == AsTuple([i \in DOMAIN groups |-> category_code(groups[i])])

sort_by_degree_group(df) == Take(df, argsort(category_codes(Col(df, Degree_Group))))

dynamic_height(df) ==
    IF 200 + Len(df.rows) * 25 > 400 THEN 200 + Len(df.rows) * 25 ELSE 400

\* px.bar(staff_sorted_df.sort_values(col, ascending=True), y="staff name", x=col, ...):
\* the bars in ascending order of the measure (which staff member a tied bar
\* belongs to is left out)
staff_bar(df, title, col) ==
    Figure(title, col, SortedValues(Col(df, col)), Range(Col(df, staff_name)),
           dynamic_height(df))

operations_bars(df) ==
    << Figure("Operations by Type", <<"Elective", "Emergency">>,
              <<safe_sum(df, opr_elective), safe_sum(df, opr_emergency)>>, {}, 0),
       Figure("Operations by Value", <<"High", "Moderate", "Low">>,
              <<safe_sum(df, opr_high), safe_sum(df, opr_moderate), safe_sum(df, opr_low)>>,
              {}, 0) >>

\* the fixed divisor of the "Avg." columns
AvgDivisor == 10

\* (series / 10).round(2), in hundredths
avg_column(values) ==
    AsTuple([i \in DOMAIN values |-> RoundHalfEven(values[i] * 100, AvgDivisor)])

perf_columns ==
    <<staff_name, degree, total_hours, opened_clinic, Total_visits, Operation_total_number>>

\* perf_table["Avg. ..."] = (perf_table[of] / 10).round(2)
with_avg(t, name, of) == WithColumn(t, name, avg_column(Col(t, of)))

build_perf_table(sorted) ==
    with_avg(with_avg(Project(sorted, perf_columns,
                              <<"Staff Name", "Degree", "Total Hours", "Opened Clinics",
                                "Total Visits", "Total Operations">>),
                      "Avg. Clinics", "Opened Clinics"),
             "Avg. Operations", "Total Operations")

op_source_columns ==
    <<staff_name, degree, opr_elective, opr_emergency, Operation_total_number>>

build_op_source_table(sorted) ==
    Project(sorted, op_source_columns,
            <<"Staff Name", "Degree", "Elective", "Emergency", "Total Operations">>)

\* Variant: the value table's last column taken from "Total visits"
op_value_columns_visits ==
    <<staff_name, degree, opr_high, opr_moderate, opr_low, Total_visits>>

op_value_columns ==
    <<staff_name, degree, opr_high, opr_moderate, opr_low, Operation_total_number>>

build_op_value_table(sorted) ==
    Project(sorted, op_value_columns,
            <<"Staff Name", "Degree", "High", "Moderate", "Low", "Total Operations">>)

fin_columns == <<staff_name, degree, total_slary, total_income, Net>>

build_fin_table(sorted) ==
    Project(sorted, fin_columns,
            <<"Staff Name", "Degree", "Total Salary", "Total Income", "Net Income">>)

\* The sections of the dashboard, in script order.
Sections ==
    <<"sidebar", "manpower", "breakdown", "performance", "operations", "financial",
      "clinics_tab", "operations_tab", "financial_tab", "perf_table",
      "operation_tables", "fin_table", "pdf_button">>

SectionPos(name) == CHOOSE i \in DOMAIN Sections : Sections[i] = name

\* The exception, if any, a section raises on the slice df: a missing column in
\* df[[...]] or sort_values is a KeyError, a missing y column in px.bar a ValueError.
section_exception(df, name) ==
    CASE name = "breakdown" ->
           IF nonempty_degrees(df) # <<>> /\ ~HasCol(df, staff_name) THEN "KeyError" ELSE ""
      [] name = "clinics_tab" ->
           IF ~HasCol(df, opened_clinic) THEN "KeyError"
           ELSE IF ~HasCol(df, staff_name) THEN "ValueError" ELSE ""
      [] name = "operations_tab" ->
           IF ~HasCol(df, Operation_total_number) THEN "KeyError"
           ELSE IF ~HasCol(df, staff_name) THEN "ValueError" ELSE ""
      [] name = "financial_tab" ->
           IF ~HasCol(df, Net) THEN "KeyError"
           ELSE IF ~HasCol(df, staff_name) THEN "ValueError" ELSE ""
      [] name = "perf_table" -> IF MissingAny(df, perf_columns) THEN "KeyError" ELSE ""
      [] name = "operation_tables" ->
           IF MissingAny(df, op_source_columns) \/ MissingAny(df, op_value_columns)
           THEN "KeyError" ELSE ""
      [] name = "fin_table" -> IF MissingAny(df, fin_columns) THEN "KeyError" ELSE ""
      [] OTHER -> ""

\* position of the first section that raises (0 when the run reaches the end)
crash_position(df) ==
    IF \E i \in DOMAIN Sections : section_exception(df, Sections[i]) # ""
    THEN CHOOSE i \in DOMAIN Sections :
           /\ section_exception(df, Sections[i]) # ""
           /\ \A j \in 1..(i - 1) : section_exception(df, Sections[j]) = ""
    ELSE 0

Blank ==
    [messages |-> <<>>, exception |-> "", rendered |-> <<>>, options |-> <<>>,
     department |-> NoDepartment, dept_df |-> EmptyDF, detailed_tables |-> <<>>,
     metrics |-> <<>>, charts |-> <<>>, staff_sorted_df |-> EmptyDF,
     perf_table |-> EmptyDF, op_source_table |-> EmptyDF, op_value_table |-> EmptyDF,
     fin_table |-> EmptyDF, pdf_buffer |-> <<>>, download_offered |-> FALSE]

Message(kind, text) == [kind |-> kind, text |-> text]

\* the section was entered / was completed by a run that crashed at position crash
Entered(crash, name) == crash = 0 \/ SectionPos(name) <= crash
Done(crash, name) == crash = 0 \/ SectionPos(name) < crash

NoPdf == [download_offered |-> FALSE, pdf_buffer |-> <<>>, messages |-> <<>>]

page_metrics(df, opts, slice, crash) ==
    << Metric("Total Departments", Len(opts)), Metric("Total Staff", Len(df.rows)) >>
    \o manpower_metrics(slice)
    \o (IF Done(crash, "breakdown") THEN breakdown_metrics(slice, nonempty_degrees(slice))
        ELSE degree_metrics(slice, Head(nonempty_degrees(slice))))
    \o (IF Entered(crash, "performance") THEN performance_metrics(slice) ELSE <<>>)
    \o (IF Entered(crash, "financial") THEN financial_metrics(slice) ELSE <<>>)

page_charts(slice, sorted, crash) ==
    (IF Entered(crash, "operations") THEN operations_pies(slice) ELSE <<>>)
    \o (IF Done(crash, "clinics_tab")
        THEN <<staff_bar(sorted, "Clinics by Staff (All)", opened_clinic)>> ELSE <<>>)
    \o (IF Done(crash, "operations_tab")
        THEN <<staff_bar(sorted, "Operations by Staff (All)", Operation_total_number)>>
             \o operations_bars(slice)
        ELSE <<>>)
    \o (IF Done(crash, "financial_tab")
        THEN <<staff_bar(sorted, "Net Income by Staff (All)", Net)>> ELSE <<>>)

\* everything the run leaves on the page
page(df, opts, dept, slice, crash, sorted, tables, perf, op_source, op_value, fin, pdf) ==
    [messages |-> <<Message("success", "File uploaded!")>> \o pdf.messages,
     exception |-> IF crash = 0 THEN "" ELSE section_exception(slice, Sections[crash]),
     rendered |-> SelectSeq(Sections, LAMBDA name : Done(crash, name)),
     options |-> opts,
     department |-> dept,
     dept_df |-> slice,
     detailed_tables |-> tables,
     metrics |-> page_metrics(df, opts, slice, crash),
     charts |-> page_charts(slice, sorted, crash),
     staff_sorted_df |-> IF Entered(crash, "clinics_tab") THEN sorted ELSE EmptyDF,
     perf_table |-> perf,
     op_source_table |-> op_source,
     op_value_table |-> op_value,
     fin_table |-> fin,
     pdf_buffer |-> pdf.pdf_buffer,
     download_offered |-> pdf.download_offered]

\* if st.button("Generate PDF Report"): try ... except ...
pdf_section(dept, crash, tables, perf, op_source, op_value, fin, clicked, fault) ==
    IF clicked /\ crash = 0
    THEN pdf_boundary(generate_pdf(dept, tables, perf, op_source, op_value, fin, fault))
    ELSE NoPdf

with_pdf(df, opts, dept, slice, crash, sorted, tables, perf, op_source, op_value, fin, clicked, fault) ==
    page(df, opts, dept, slice, crash, sorted, tables, perf, op_source, op_value, fin,
         pdf_section(dept, crash, tables, perf, op_source, op_value, fin, clicked, fault))

\* the staff breakdown and the projected tables, as far as the run gets
with_tables(df, opts, dept, slice, crash, sorted, clicked, fault) ==
    with_pdf(df, opts, dept, slice, crash, sorted,
             IF Done(crash, "breakdown") THEN build_detailed_tables(slice) ELSE <<>>,
             IF Done(crash, "perf_table") THEN build_perf_table(sorted) ELSE EmptyDF,
             IF Entered(crash, "operation_tables") /\ ~MissingAny(slice, op_source_columns)
             THEN build_op_source_table(sorted) ELSE EmptyDF,
             IF Done(crash, "operation_tables") THEN build_op_value_table(sorted) ELSE EmptyDF,
             IF Done(crash, "fin_table") THEN build_fin_table(sorted) ELSE EmptyDF,
             clicked, fault)

dashboard(df, opts, dept, slice, clicked, fault) ==
    with_tables(df, opts, dept, slice, crash_position(slice), sort_by_degree_group(slice),
                clicked, fault)

with_department(df, opts, dept, clicked, fault) ==
    dashboard(df, opts, dept, department_slice(df, dept), clicked, fault)

with_options(df, opts, sel, clicked, fault) ==
    with_department(df, opts, selectbox(opts, sel), clicked, fault)

\* from the schema check on, df being the upload with its headers normalised
checked(df, sel, clicked, fault) ==
    IF ~HasCol(df, department_col)
    THEN [Blank EXCEPT !.messages =
            << Message("success", "File uploaded!"),
               Message("error", "CSV must contain 'department' column") >>]
    ELSE with_options(df, department_options(df), sel, clicked, fault)

\* One run of the script: file is the uploader's value, sel the selectbox's widget
\* state, clicked whether the run was triggered by the PDF button, fault the
\* section of the report at which reportlab fails (0: none).
script(file, sel, clicked, fault) ==
    IF ~file.present
    THEN [Blank EXCEPT !.messages = <<Message("info", "Please upload a CSV file")>>]
    ELSE checked(clean_columns(file.df), sel, clicked, fault)

(***************************************************************************)
(* Uploads the model draws from.                                           *)
(***************************************************************************)
StaffRecord(dept, name, deg, contract, hours, clinic, visits, ops, elective, emergency, high, moderate, low, salary, income, net) ==
    [dept |-> dept, name |-> name, deg |-> deg, contract |-> contract, hours |-> hours,
     clinic |-> clinic, visits |-> visits, ops |-> ops, elective |-> elective,
     emergency |-> emergency, high |-> high, moderate |-> moderate, low |-> low,
     salary |-> salary, income |-> income, net |-> net]

RowPool ==
    << StaffRecord("Surgery", "A",
                   Str(<<"C","o","n","s","u","l","t","a","n","t"," ","S","u","r","g","e","o","n">>),
                   "Contracted", 100, 10, 40, 20, 12, 8, 5, 10, 5, 900, 1500, 600),
       StaffRecord("Surgery", "B", Str(<<"R","e","s","i","d","e","n","t">>),
                   "General", 50, 5, 20, 5, 3, 2, 1, 2, 2, 300, 400, 100),
       StaffRecord("Surgery", "C",
                   Str(<<"S","e","n","i","o","r"," ","S","P","E","C","I","A","L","I","S","T">>),
                   "Contracted", 80, 8, 30, 10, 6, 4, 2, 5, 3, 600, 900, 300),
       StaffRecord("Surgery", "D", Str(<<"N","u","r","s","e">>),
                   "General", 40, 0, 0, 0, 0, 0, 0, 0, 0, 200, 0, 0),
       StaffRecord("ENT", "E", Str(<<"c","o","n","s","u","l","t","a","n","t">>),
                   "Locum", 60, 5, 25, 7, 4, 3, 2, 2, 3, 500, 800, 300),
       StaffRecord("ENT", "F", NaN,
                   "General", 30, 3, 10, 2, 1, 1, 0, 1, 1, 250, 300, 50) >>

\* the cell of staff record r in the column named col
CellOf(r, col) ==
    CASE col = staff_name -> r.name
      [] col = degree -> r.deg
      [] col = Contract_type -> r.contract
      [] col = total_hours -> r.hours
      [] col = opened_clinic -> r.clinic
      [] col = Total_visits -> r.visits
      [] col = Operation_total_number -> r.ops
      [] col = opr_elective -> r.elective
      [] col = opr_emergency -> r.emergency
      [] col = opr_high -> r.high
      [] col = opr_moderate -> r.moderate
      [] col = opr_low -> r.low
      [] col = total_slary -> r.salary
      [] col = total_income -> r.income
      [] col = Net -> r.net
      [] OTHER -> r.dept

\* pd.read_csv of a file whose first header is written as header and whose other
\* headers are the optional columns in present
CsvTable(header, present, roster) ==
    LET cols == <<header>> \o SelectSeq(OptionalColumns, LAMBDA c : c \in present)
    IN [columns |-> cols,
        rows |-> AsTuple([i \in DOMAIN roster |->
                    [index |-> i - 1,
                     cells |-> AsTuple([j \in DOMAIN cols |->
                                  IF j = 1 THEN roster[i].dept
                                  ELSE CellOf(roster[i], cols[j])])]])]

AllOptional == Range(OptionalColumns)

\* ways the file writes the header of its department column
DepartmentHeaders ==
    { department_col,
      <<" ","d","e","p","a","r","t","m","e","n","t","\t">>,
      <<"\n"," ","d","e","p","a","r","t","m","e","n","t">>,
      <<"D","e","p","a","r","t","m","e","n","t">>,
      <<"d","e","p","a","r","t"," "," ","m","e","n","t">>,
      <<"d","e","p","t">> }

\* header layouts: every department header with all optional columns, and the
\* canonical header with none, one or two of the optional columns missing
Layouts ==
    {[header |-> h, present |-> AllOptional] : h \in DepartmentHeaders}
    \cup {[header |-> department_col, present |-> AllOptional \ {c}] : c \in AllOptional}
    \cup {[header |-> department_col, present |-> AllOptional \ {opr_elective, opr_emergency}],
          [header |-> department_col, present |-> AllOptional \ {staff_name, Contract_type}],
          [header |-> department_col, present |-> {}]}

Rosters == UNION {[1..n -> Range(RowPool)] : n \in 0..MaxRows}

\* one staff record n times over, under distinct names
UniformRoster(r, n) == AsTuple([i \in 1..n |-> [r EXCEPT !.name = ToString(i)]])

(***************************************************************************)
(* State machine: each action is one run of the script.                    *)
(***************************************************************************)
NoFile == [present |-> FALSE, df |-> EmptyDF]

\* the run's outputs become the page
Show(out) ==
    /\ department' = out.department
    /\ messages' = out.messages
    /\ exception' = out.exception
    /\ rendered' = out.rendered
    /\ options' = out.options
    /\ dept_df' = out.dept_df
    /\ detailed_tables' = out.detailed_tables
    /\ metrics' = out.metrics
    /\ charts' = out.charts
    /\ staff_sorted_df' = out.staff_sorted_df
    /\ perf_table' = out.perf_table
    /\ op_source_table' = out.op_source_table
    /\ op_value_table' = out.op_value_table
    /\ fin_table' = out.fin_table
    /\ pdf_buffer' = out.pdf_buffer
    /\ download_offered' = out.download_offered

Rerun(file, sel, clicked, fault) ==
    /\ uploaded_file' = file
    /\ button_pressed' = clicked
    /\ Show(script(file, sel, clicked, fault))
    /\ UNCHANGED harness_vars

Init ==
    /\ uploaded_file = NoFile
    /\ department = Blank.department
    /\ messages = <<Message("info", "Please upload a CSV file")>>
    /\ exception = ""
    /\ rendered = <<>>
    /\ options = <<>>
    /\ dept_df = EmptyDF
    /\ detailed_tables = <<>>
    /\ metrics = <<>>
    /\ charts = <<>>
    /\ staff_sorted_df = EmptyDF
    /\ perf_table = EmptyDF
    /\ op_source_table = EmptyDF
    /\ op_value_table = EmptyDF
    /\ fin_table = EmptyDF
    /\ pdf_buffer = <<>>
    /\ download_offered = FALSE
    /\ button_pressed = FALSE
    /\ header_in = <<>>
    /\ header_out = <<>>
    /\ degree_in = <<>>
    /\ degree_out = ""

\* the user uploads a CSV file (the uploader holds none)
Upload ==
    /\ ~uploaded_file.present
    /\ \E layout \in Layouts, roster \in Rosters :
         Rerun([present |-> TRUE, df |-> CsvTable(layout.header, layout.present, roster)],
               department, FALSE, 0)

\* the user uploads a complete CSV file of one large department
UploadLarge ==
    /\ ~uploaded_file.present
    /\ \E r \in Range(RowPool), n \in (MaxRows + 1)..MaxStaff :
         Rerun([present |-> TRUE,
                df |-> CsvTable(department_col, AllOptional, UniformRoster(r, n))],
               department, FALSE, 0)

\* the user picks another department in the sidebar
SelectDepartment ==
    /\ uploaded_file.present
    /\ \E i \in DOMAIN options :
         /\ options[i] # department
         /\ Rerun(uploaded_file, options[i], FALSE, 0)

\* the user presses "Generate PDF Report"; reportlab builds the document or raises
GeneratePdf ==
    /\ \E i \in DOMAIN rendered : rendered[i] = "pdf_button"
    /\ \E fault \in {0} \cup ReportSections :
         Rerun(uploaded_file, department, TRUE, fault)

\* the user removes the file from the uploader
RemoveFile ==
    /\ uploaded_file.present
    /\ Rerun(NoFile, department, FALSE, 0)

Next == Upload \/ UploadLarge \/ SelectDepartment \/ GeneratePdf \/ RemoveFile

Spec == Init /\ [][Next]_vars

(***************************************************************************)
(* Harness for clean_columns: a table is read, then cleaned, then cleaned  *)
(* once more.                                                              *)
(***************************************************************************)
HeaderAlphabet == {" ", "\t", "a", "b"}

RawHeaders == UNION {[1..n -> HeaderAlphabet] : n \in 1..MaxHeaderLen}

\* pd.read_csv of a file with the single header h
ReadHeader ==
    /\ header_in = <<>>
    /\ \E h \in RawHeaders :
         /\ header_in' = <<h>>
         /\ header_out' = <<>>
    /\ UNCHANGED <<pipeline_vars, degree_in, degree_out>>

\* df = clean_columns(df), on the table as read or as cleaned before
CleanColumns ==
    /\ header_in # <<>>
    /\ Len(header_out) < 2
    /\ header_out' =
         Append(header_out,
                clean_columns([columns |-> IF header_out = <<>> THEN header_in
                                           ELSE header_out[Len(header_out)],
                               rows |-> <<>>]).columns)
    /\ UNCHANGED <<pipeline_vars, header_in, degree_in, degree_out>>

\* the next file
ForgetHeader ==
    /\ Len(header_out) = 2
    /\ header_in' = <<>>
    /\ header_out' = <<>>
    /\ UNCHANGED <<pipeline_vars, degree_in, degree_out>>

NextNormalize == ReadHeader \/ CleanColumns \/ ForgetHeader

SpecNormalize == Init /\ [][NextNormalize]_vars

(***************************************************************************)
(* Harness for classify_degree: one cell of the "degree" column at a time. *)
(***************************************************************************)
Fragments ==
    { <<"C","o","n">>, <<"S","U","L","T">>, <<"c","o","n","s","u","l","t">>,
      <<"S","p","e","c">>, <<"i","a","l">>, <<"S","P","E","C","I","A","L">>,
      <<"r","e","s","i">>, <<"d","e","n","t">>, <<"R","e","s","i","d","e","n","t">>,
      <<" ">>, <<"a","n","t">>, <<"n","u","r","s","e">> }

\* the cells: the float nan of an empty field, and every text of up to MaxFrags fragments
DegreeCells ==
    {NaN} \cup {Str(Flatten(fs)) : fs \in UNION {[1..n -> Fragments] : n \in 0..MaxFrags}}

\* apply takes up a cell of the column
ReadCell ==
    /\ degree_in = <<>>
    /\ \E x \in DegreeCells : degree_in' = <<x>>
    /\ UNCHANGED <<pipeline_vars, header_in, header_out, degree_out>>

\* dept_df["degree"].apply(classify_degree), one cell
Classify ==
    /\ degree_in # <<>>
    /\ degree_out = ""
    /\ degree_out' = classify_degree(degree_in[1])
    /\ UNCHANGED <<pipeline_vars, header_in, header_out, degree_in>>

\* on to the next cell
NextCell ==
    /\ degree_out # ""
    /\ degree_in' = <<>>
    /\ degree_out' = ""
    /\ UNCHANGED <<pipeline_vars, header_in, header_out>>

NextClassify == ReadCell \/ Classify \/ NextCell

SpecClassify == Init /\ [][NextClassify]_vars

(***************************************************************************)
(* Properties.  Vocabulary first.                                          *)
(***************************************************************************)
RawColumns == uploaded_file.df.columns

Shown(kind, text) == \E k \in DOMAIN messages : messages[k] = [kind |-> kind, text |-> text]

Reached(name) == \E k \in DOMAIN rendered : rendered[k] = name

Categories == {"Consultant", "Specialist", "Resident", "Other"}

Rank(g) ==
    CASE g = "Consultant" -> 1 [] g = "Specialist" -> 2 [] g = "Resident" -> 3 [] OTHER -> 4

SliceIndexes == {dept_df.rows[i].index : i \in DOMAIN dept_df.rows}

\* the row of the department slice with index label idx
SliceRow(idx) == CHOOSE r \in Range(dept_df.rows) : r.index = idx

\* the cell of that row in column col of the slice
SliceCell(idx, col) ==
    SliceRow(idx).cells[CHOOSE k \in DOMAIN dept_df.columns : dept_df.columns[k] = col]

GroupOf(idx) == SliceCell(idx, Degree_Group)

Indexes(t) == [i \in DOMAIN t.rows |-> t.rows[i].index]

\* the table holds every row of the slice exactly once
CoversSlice(t) ==
    /\ Len(t.rows) = Len(dept_df.rows)
    /\ {t.rows[i].index : i \in DOMAIN t.rows} = SliceIndexes

OrderedByCategory(t) ==
    \A i, j \in DOMAIN t.rows :
        i < j => Rank(GroupOf(t.rows[i].index)) <= Rank(GroupOf(t.rows[j].index))

SortedTables == {staff_sorted_df, perf_table, op_source_table, op_value_table, fin_table}

\* C1: whenever the uploaded file has the 'department' column, whichever of the
\* optional columns are absent, the run completes: no exception is raised and
\* every section down to the PDF button is rendered.
C1_PipelineCompletes ==
    (uploaded_file.present /\ \E i \in DOMAIN RawColumns : RawColumns[i] = department_col)
        => exception = "" /\ Reached("pdf_button")

(***************************************************************************)
(* classify_degree                                                         *)
(***************************************************************************)
SameLetter(a, b) ==
    a = b \/ \E n \in DOMAIN Upper : {a, b} = {Upper[n], Lower[n]}

DegreeText == IF degree_in[1] = NaN THEN <<"n","a","n">> ELSE degree_in[1].s

\* word occurs in the text of the cell, letter case ignored
Mentions(word) ==
    \E i \in 1..(Len(DegreeText) - Len(word) + 1) :
        \A k \in DOMAIN word : SameLetter(DegreeText[i + k - 1], word[k])

MentionsConsult == Mentions(<<"c","o","n","s","u","l","t">>)
MentionsSpecial == Mentions(<<"s","p","e","c","i","a","l">>)
MentionsResident == Mentions(<<"r","e","s","i","d","e","n","t">>)

\* C2: the group of a cell is Consultant when its text mentions "consult",
\* letter case ignored; else Specialist when it mentions "special"; else
\* Resident when it mentions "resident"; else Other.  A text that mentions both
\* "consult" and "special" is a Consultant.
C2_ClassifyPrecedence ==
    degree_out # "" =>
        /\ degree_out \in Categories
        /\ (degree_out = "Consultant") = MentionsConsult
        /\ (degree_out = "Specialist") = (MentionsSpecial /\ ~MentionsConsult)
        /\ (degree_out = "Resident") =
               (MentionsResident /\ ~MentionsSpecial /\ ~MentionsConsult)
        /\ (degree_out = "Other") =
               (~MentionsResident /\ ~MentionsSpecial /\ ~MentionsConsult)

\* a cell in capitals that mentions "special" ahead of "consult"
C2_Witness ==
    /\ degree_in = <<Str(<<"S","P","E","C","I","A","L","c","o","n","s","u","l","t">>)>>
    /\ degree_out = "Consultant"

(***************************************************************************)
(* The sorted slice and the tables projected from it                       *)
(***************************************************************************)
\* C3: in the sorted slice and in the performance, operation-source,
\* operation-value and financial tables, the rows of the department come in the
\* order Consultant, Specialist, Resident, Other of their degree groups.
C3_CategoryOrder ==
    \A t \in SortedTables :
        t # EmptyDF => CoversSlice(t) /\ OrderedByCategory(t)

\* a slice that lists a Resident ahead of a Specialist, all four tables built
C3_Witness ==
    /\ fin_table # EmptyDF /\ perf_table # EmptyDF
    /\ \E i, j \in DOMAIN dept_df.rows :
         /\ i < j
         /\ GroupOf(dept_df.rows[i].index) = "Resident"
         /\ GroupOf(dept_df.rows[j].index) = "Specialist"

\* C4: the sort keeps the rows of one degree group in the order the slice lists
\* them (ascending index labels), and sorting the sorted slice changes nothing.
C4_StableSort ==
    /\ \A i, j \in DOMAIN staff_sorted_df.rows :
         (i < j /\ GroupOf(staff_sorted_df.rows[i].index)
                     = GroupOf(staff_sorted_df.rows[j].index))
            => staff_sorted_df.rows[i].index < staff_sorted_df.rows[j].index
    /\ staff_sorted_df # EmptyDF => sort_by_degree_group(staff_sorted_df) = staff_sorted_df

TableColumn(t, label) ==
    LET k == CHOOSE n \in DOMAIN t.columns : t.columns[n] = label
    IN [i \in DOMAIN t.rows |-> t.rows[i].cells[k]]

\* the table's staff names and operation totals are the slice's, row by row
AgreesWithSlice(t) ==
    \A i \in DOMAIN t.rows :
        /\ t.rows[i].index \in SliceIndexes
        /\ TableColumn(t, "Staff Name")[i] = SliceCell(t.rows[i].index, staff_name)
        /\ TableColumn(t, "Total Operations")[i]
               = SliceCell(t.rows[i].index, Operation_total_number)

SameStaff(a, b) ==
    /\ Indexes(a) = Indexes(b)
    /\ TableColumn(a, "Staff Name") = TableColumn(b, "Staff Name")
    /\ TableColumn(a, "Total Operations") = TableColumn(b, "Total Operations")

PdfTables == SelectSeq(pdf_buffer, LAMBDA f : f.kind = "Table")

\* the tables of the report are the breakdown tables and the four tables of the page
ReportFromPage ==
    LET n == Len(detailed_tables) IN
    /\ pdf_buffer[1] = Flowable("Title", department, <<>>, <<>>)
    /\ Len(PdfTables) = n + 4
    /\ \A k \in 1..n : PdfTables[k].data = TableData(detailed_tables[k].table)
    /\ PdfTables[n + 1].data = TableData(perf_table)
    /\ PdfTables[n + 2].data = TableData(op_source_table)
    /\ PdfTables[n + 3].data = TableData(op_value_table)
    /\ PdfTables[n + 4].data = TableData(fin_table)

\* C5: the performance, operation-source and operation-value tables list the
\* same staff in the same order with the same "Total Operations", and the
\* tables of a generated report are those of the selected department's slice.
C5_CrossTableConsistency ==
    /\ \A t \in {perf_table, op_source_table, op_value_table} :
         t # EmptyDF => AgreesWithSlice(t)
    /\ (perf_table # EmptyDF /\ op_source_table # EmptyDF)
          => SameStaff(perf_table, op_source_table)
    /\ (perf_table # EmptyDF /\ op_value_table # EmptyDF)
          => SameStaff(perf_table, op_value_table)
    /\ download_offered =>
          /\ ReportFromPage
          /\ \A t \in {perf_table, op_source_table, op_value_table, fin_table} :
               CoversSlice(t)
          /\ \A k \in DOMAIN detailed_tables :
               \A i \in DOMAIN detailed_tables[k].table.rows :
                   LET idx == detailed_tables[k].table.rows[i].index
                   IN idx \in SliceIndexes /\ GroupOf(idx) = detailed_tables[k].degree

\* a report over a slice of two staff whose operation totals differ
C5_Witness ==
    /\ download_offered
    /\ Len(op_value_table.rows) = 2
    /\ TableColumn(op_value_table, "Total Operations")[1]
         # TableColumn(op_value_table, "Total Operations")[2]
    /\ Indexes(perf_table) # Indexes(dept_df)

BreakdownHeading(cat) ==
    \E k \in DOMAIN pdf_buffer :
        /\ pdf_buffer[k].kind = "Heading3"
        /\ pdf_buffer[k].text = cat
        /\ pdf_buffer[k + 1].kind = "Table"

\* C6: the staff breakdown of a generated report has a sub-heading with a table
\* for each of Consultant, Specialist, Resident and Other exactly when the
\* department has staff of that group.
C6_SubheadingPerCategory ==
    download_offered =>
        \A cat \in Categories :
            BreakdownHeading(cat) <=> (\E idx \in SliceIndexes : GroupOf(idx) = cat)

(***************************************************************************)
(* The schema check                                                        *)
(***************************************************************************)
\* h is 'department' with nothing but whitespace around it
DepartmentUpToWhitespace(h) ==
    \E i, j \in DOMAIN h :
        /\ SubSeq(h, i, j) = department_col
        /\ \A k \in DOMAIN h : (k < i \/ k > j) => IsSpace(h[k])

SchemaRejected == Shown("error", "CSV must contain 'department' column")

NothingBuilt ==
    /\ rendered = <<>> /\ options = <<>> /\ department = NoDepartment
    /\ metrics = <<>> /\ charts = <<>> /\ detailed_tables = <<>>
    /\ \A t \in SortedTables \cup {dept_df} : t = EmptyDF
    /\ ~download_offered /\ pdf_buffer = <<>> /\ ~button_pressed

\* C7: an upload none of whose headers is 'department' once its whitespace is
\* normalised (letter case matters) gets the error message and nothing else: no
\* department options, no dashboard, no PDF button and so no report.  A header
\* that is 'department' up to surrounding whitespace is accepted.
C7_DepartmentRequired ==
    uploaded_file.present =>
        IF \E i \in DOMAIN RawColumns : DepartmentUpToWhitespace(RawColumns[i])
        THEN ~SchemaRejected /\ Reached("sidebar")
        ELSE SchemaRejected /\ NothingBuilt /\ exception = ""

\* the upload that spells the header "Department"
C7_Witness ==
    /\ uploaded_file.present
    /\ RawColumns[1] = <<"D","e","p","a","r","t","m","e","n","t">>
    /\ SchemaRejected
    /\ Len(uploaded_file.df.rows) > 0

(***************************************************************************)
(* The PDF button                                                          *)
(***************************************************************************)
PdfError == Shown("error", "PDF generation failed")

Headings2 == SelectSeq(pdf_buffer, LAMBDA f : f.kind = "Heading2")

\* the buffer holds the whole report of the page
CompleteReport ==
    /\ pdf_buffer # <<>>
    /\ ReportFromPage
    /\ [k \in DOMAIN Headings2 |-> Headings2[k].text]
         = <<"Staff Breakdown by Degree", "Overall Performance", "Operations Overview",
             "Financial Performance">>
    /\ pdf_buffer[Len(pdf_buffer)] = PdfTables[Len(PdfTables)]

\* C8: a run started by the PDF button ends either with the download of the
\* complete report and no error, or with the error message and no download at
\* all, the dashboard staying in place; no other run offers a download.
C8_AllOrNothing ==
    /\ button_pressed =>
         /\ exception = "" /\ Reached("pdf_button")
         /\ \/ download_offered /\ CompleteReport /\ ~PdfError
            \/ ~download_offered /\ pdf_buffer = <<>> /\ PdfError
    /\ ~button_pressed => ~download_offered /\ pdf_buffer = <<>> /\ ~PdfError

\* the build failed on a department with staff
C8_Witness ==
    /\ button_pressed /\ PdfError /\ ~download_offered
    /\ fin_table.rows # <<>> /\ detailed_tables # <<>>

(***************************************************************************)
(* safe_sum                                                                *)
(***************************************************************************)
\* the total of column col over the slice, 0 when the slice has no such column
Expected(col) ==
    IF \E k \in DOMAIN dept_df.columns : dept_df.columns[k] = col
    THEN LET total[n \in 0..Len(dept_df.rows)] ==
                 IF n = 0 THEN 0
                 ELSE total[n - 1] + SliceCell(dept_df.rows[n].index, col)
         IN total[Len(dept_df.rows)]
    ELSE 0

Card(label) == CHOOSE m \in Range(metrics) : m.label = label

Totals ==
    << <<"Total Hours", total_hours>>, <<"Opened Clinics", opened_clinic>>,
       <<"Total Visits", Total_visits>>, <<"Total Operations", Operation_total_number>>,
       <<"Total Salary", total_slary>>, <<"Total Income", total_income>>,
       <<"Net Income", Net>> >>

\* C9: every total the dashboard shows is the sum of its column over the slice,
\* and 0 when the slice has no such column; the pie of the operation sources
\* then has the values [0, 0].  No total stops the run: the sections made of
\* totals are rendered whenever the section before them is.
C9_SafeSum ==
    /\ \A k \in DOMAIN Totals :
         (\E m \in Range(metrics) : m.label = Totals[k][1])
            => Card(Totals[k][1]).n = Expected(Totals[k][2])
    /\ charts # <<>> =>
         /\ charts[1].values = <<Expected(opr_elective), Expected(opr_emergency)>>
         /\ charts[2].values = <<Expected(opr_high), Expected(opr_moderate), Expected(opr_low)>>
    /\ Reached("breakdown") =>
         /\ Reached("performance") /\ Reached("operations") /\ Reached("financial")
         /\ Len(charts) >= 2
         /\ \A k \in DOMAIN Totals : \E m \in Range(metrics) : m.label = Totals[k][1]

\* a department with staff, in a file without the two operation-source columns
C9_Witness ==
    /\ dept_df.rows # <<>>
    /\ \A k \in DOMAIN dept_df.columns : dept_df.columns[k] \notin {opr_elective, opr_emergency}
    /\ Expected(opr_high) > 0
    /\ Len(charts) >= 2
    /\ charts[1].values = <<0, 0>>

(***************************************************************************)
(* clean_columns                                                           *)
(***************************************************************************)
NormalForm(h) ==
    /\ h # <<>> => ~IsSpace(h[1]) /\ ~IsSpace(h[Len(h)])
    /\ \A k \in 1..(Len(h) - 1) : ~(IsSpace(h[k]) /\ IsSpace(h[k + 1]))

Letters(h) == SelectSeq(h, LAMBDA c : ~IsSpace(c))

\* C10: cleaning the headers a second time changes nothing, and a cleaned
\* header has no whitespace at either end and no two whitespace characters in
\* a row (its other characters are those of the header as read).
C10_CleanColumnsIdempotent ==
    /\ Len(header_out) >= 1 =>
         \A i \in DOMAIN header_out[1] :
             /\ NormalForm(header_out[1][i])
             /\ Letters(header_out[1][i]) = Letters(header_in[i])
    /\ Len(header_out) = 2 => header_out[2] = header_out[1]

\* a header with whitespace at both ends and a run of it inside, cleaned twice
C10_Witness ==
    /\ Len(header_out) = 2
    /\ header_in = << <<"\t", "a", " ", "\t">> >>
    /\ header_out[1] = << <<"a">> >>

====
